---- MODULE Spec2Model ----
(***************************************************************************)
(* Model of helix-lsp/src/transport.rs: the three tasks started by         *)
(* Transport::start (recv, err, send), the pending_requests table they      *)
(* share, and the callers and the language server around them.              *)
(*                                                                          *)
(* Tasks interleave at their await points (lock().await, tx.send().await,  *)
(* stream reads and writes); what runs between two await points is one     *)
(* action.  A write to the outbound stream succeeds, fails or waits, as the *)
(* server's end of the pipe lets it.  Every request                         *)
(* carries its own completion channel (chan), identified here by the       *)
(* serial number of the payload, and the caller's request ids are fresh,   *)
(* so a request's id is its serial number too.  The result or error a      *)
(* response carries is named by the id the response carries.               *)
(*                                                                          *)
(* The frame codec (recv_server_message, send_string_to_server) is modelled *)
(* as functions on byte sequences and applied to streams of its own         *)
(* (SpecCodec); in the model of the tasks a frame on the server's stdout is *)
(* named by what it decodes to and a frame on the wire by its payload.      *)
(***************************************************************************)
EXTENDS Integers, Sequences, FiniteSets

\* Bounds of the model.
MaxPayloads == 3    \* payloads of any kind the caller enqueues
MaxRequests == 2    \* payloads the caller enqueues when it only sends requests
MaxFrames == 2      \* frames the server writes to its stdout
MaxNotify == 2      \* times the caller fires initialize_notify
MaxErrLines == 1    \* unread lines the stderr pipe holds
MaxRxDrops == 1     \* completion receivers the caller drops (timeouts)
MaxStrayLines == 2  \* lines a peer adds to the header block of a frame
MaxCodecFrames == 2 \* frames written to the stream the codec reads

VARIABLES
    \* ---- outbound channel (tx / client_rx), lines 62, 340
    client_rx,        \* payloads enqueued and not yet dequeued, in order
    next_serial,      \* serial number of the next payload enqueued
    tx_open,          \* FALSE once every UnboundedSender<Payload> is dropped
    tx_refused,       \* serials of the payloads whose tx.send returned Err
    \* ---- initialize_notify (tokio Notify), lines 63, 376
    initialize_notify,\* the Notify: its stored permit, and the Notified
                      \* future of the select (line 376) as a waiter
    notify_count,     \* times the caller fired the trigger
    \* ---- upstream channel (client_tx / rx), lines 61, 212
    upstream,         \* every (id, Call) accepted by the channel, in order
    upstream_open,    \* FALSE once the UnboundedReceiver is dropped
    \* ---- completion channels (Payload::Request.chan), line 24
    got,              \* chan -> values accepted by the channel, in order
    rx_dropped,       \* chans whose receiver was dropped
    send_failed,      \* chans for which a send failure was logged (237, 294)
    \* ---- Transport.pending_requests and its Mutex, line 46
    pending_requests, \* id -> chan
    lock,             \* "free" or the task holding the MutexGuard
    \* ---- server streams
    stdout,           \* frames written by the server and not yet read
    frames_out,       \* frames the server wrote so far
    stdout_eof,       \* the server closed its stdout
    err_lines,        \* stderr lines written and not yet read, in order
    stderr_eof,       \* the server closed its stderr
    stdin_pipe,       \* the pipe behind server_stdin: "open" while the server
                      \* reads it, "full" once it is full and the server
                      \* does not read, "closed" once the server closed its
                      \* end
    wire,             \* every payload written to server_stdin, in order
    \* ---- recv task (lines 253-319)
    r_pc,             \* "read", "resolve", "drain", "exit", "done"
    r_tx,             \* the chan removed by process_request_response
    r_result,         \* the result it is about to deliver
    r_exit,           \* how the task ended: "none", "sequence", "break",
                      \* "panic", "abort"
    \* ---- err task (lines 321-334)
    e_pc,             \* "read", "done"
    \* ---- send task (lines 336-434)
    w_pc,             \* "select", "flush", "register", "write", "done"
    w_msg,            \* the payload inside send_payload_to_server
    is_pending,       \* line 344
    pending_messages, \* line 343
    w_draining,       \* inside the drain loop of the notified branch (396)
    \* ---- history
    deq_pending,      \* the payloads dequeued while is_pending
    discards,         \* responses logged as "without a request" (243)
    registered,       \* ids ever inserted into pending_requests
    write_failed,     \* payloads whose write returned Err (logged: 400, 422)
    removed_by,       \* id -> the removals of its entry: "resolve", "drain"
    drain_set,        \* ids in pending_requests when the drain started
    ready_count,      \* times the notified branch ran
    \* ---- the frame codec on its own: recv_server_message (lines 90-142)
    \* reading what a peer wrote, and send_string_to_server (lines 179-198)
    \* writing to server_stdin
    c_stream,         \* bytes written to the stream and not yet read
    c_eof,            \* the write end of the stream is closed
    c_stdin,          \* frames written to server_stdin the peer has not taken
    c_buffer,         \* recv_buffer (line 258), the line buffer
    c_content,        \* content_buffer (line 259), the body scratch buffer
    c_unsent,         \* bytes of a frame the peer has still to write
    c_pc,             \* "off"; "read": recv is about to call
                      \* recv_server_message; "line", "body": the call waits
                      \* in read_line (99), in read_exact (131); "done"
    c_call,           \* the call that waits: content_length so far (96),
                      \* the bytes read_line has taken of a line, the bytes
                      \* read_exact has put into content, and the bytes of
                      \* the stream the call has taken in all
    c_fed,            \* history: the frames written to the stream, in order
    c_results         \* history: what each recv_server_message call returned

codecVars == << c_stream, c_eof, c_stdin, c_unsent, c_buffer, c_content, c_pc,
               c_call, c_fed, c_results >>

transportVars == << client_rx, next_serial, tx_open, tx_refused,
           initialize_notify, notify_count, upstream, upstream_open,
           got, rx_dropped, send_failed, pending_requests, lock,
           stdout, frames_out, stdout_eof, err_lines, stderr_eof,
           stdin_pipe, wire, write_failed,
           r_pc, r_tx, r_result, r_exit, e_pc, w_pc, w_msg, is_pending,
           pending_messages, w_draining, deq_pending, discards, registered,
           removed_by, drain_set, ready_count >>

vars == << transportVars, codecVars >>

callerVars == << next_serial, tx_open, tx_refused, notify_count, upstream_open,
                 rx_dropped >>
serverVars == << frames_out, stdout_eof, stderr_eof, stdin_pipe >>
readerVars == << r_pc, r_tx, r_result, r_exit, removed_by, drain_set,
                 discards >>
errVars    == << e_pc >>
writerVars == << w_pc, w_msg, is_pending, pending_messages, w_draining,
                 wire, write_failed, deq_pending, registered, ready_count >>

----------------------------------------------------------------------------
\* Data

MaxSerial == IF MaxPayloads > MaxRequests THEN MaxPayloads ELSE MaxRequests
Chans == 1..MaxSerial
Ids   == 1..MaxSerial

NoPayload == [serial |-> 0, kind |-> "None", method |-> "", id |-> 0]

\* enum Payload (lines 22-29); a Request's chan is its serial
Request(s, m)      == [serial |-> s, kind |-> "Request", method |-> m, id |-> s]
Notification(s, m) == [serial |-> s, kind |-> "Notification", method |-> m, id |-> 0]
Response(s)        == [serial |-> s, kind |-> "Response", method |-> "", id |-> 0]

Payloads(s) ==
    {Request(s, m) : m \in {"initialize", "shutdown", "textDocument/hover"}}
    \cup {Notification(s, m) : m \in {"initialized", "textDocument/didOpen"}}
    \cup {Response(s)}

\* the requests among them that do not end the send task
Requests(s) == {Request(s, m) : m \in {"initialize", "textDocument/hover"}}
\* the requests among them that are not part of the handshake
Hovers(s) == {Request(s, "textDocument/hover")}

\* What a frame on the server's stdout decodes to: enum ServerMessage
\* (lines 35-40), or a decode error of recv_server_message; and the frames
\* whose body cannot be allocated (line 130): "Oversized" has a
\* Content-Length above isize::MAX, "Unallocatable" one above what the
\* allocator can give
Successes == {[kind |-> "Success", id |-> i] : i \in Ids}
Failures  == {[kind |-> "Failure", id |-> i] : i \in Ids}
Others    == {[kind |-> "Call", id |-> 0], [kind |-> "Malformed", id |-> 0],
              [kind |-> "Oversized", id |-> 0],
              [kind |-> "Unallocatable", id |-> 0]}
Frames    == Successes \cup Failures \cup Others

\* Result<Value> delivered on a completion channel; val names the response
\* the result or error came in, by the id that response carried
Ok(i)        == [tag |-> "Ok", val |-> i]
PeerErr(i)   == [tag |-> "Err", val |-> i]
StreamClosed == [tag |-> "StreamClosed", val |-> 0]
NoResult     == [tag |-> "None", val |-> 0]

\* (LanguageServerId, jsonrpc::Call) on the upstream channel, with the task
\* that sent it
Upcall(from, method) == [from |-> from, method |-> method]

\* is_initialize letting every request through
is_initialize_request(p) ==
    \/ p.kind = "Request"
    \/ p.kind = "Notification" /\ p.method = "initialized"

\* fn is_initialize (lines 347-364)
is_initialize(p) ==
    \/ p.kind = "Request" /\ p.method = "initialize"
    \/ p.kind = "Notification" /\ p.method = "initialized"

\* is_shutdown matching the method of the exit notification instead
is_shutdown_exit(p) == p.kind = "Request" /\ p.method = "exit"

\* fn is_shutdown (lines 366-369)
is_shutdown(p) == p.kind = "Request" /\ p.method = "shutdown"

\* HashMap<jsonrpc::Id, Sender> (line 46) as a function on Ids; 0 is "no entry"
EmptyTable == [i \in Ids |-> 0]
Keys(table) == {i \in Ids : table[i] # 0}

\* HashMap::insert (line 169)
Insert(table, id, chan) == [table EXCEPT ![id] = chan]

\* HashMap::remove (line 234)
Remove(table, id) == [table EXCEPT ![id] = 0]

\* mpsc Sender::send on a completion channel (lines 235, 291): the value is
\* accepted unless the receiver was dropped, and then the failure is logged
ChanSend(chan, value) ==
    IF chan \in rx_dropped
    THEN /\ send_failed' = send_failed \cup {chan}
         /\ got' = got
    ELSE /\ got' = [got EXCEPT ![chan] = Append(@, value)]
         /\ send_failed' = send_failed

\* tokio Notify with the one task that ever waits on it (lines 63, 376).
\* permit: a notify_one() is stored.  waiter: the Notified future of the
\* select is "waiting" once it was polled and found no permit, "notified"
\* once a notify_one() was handed to it, "none" while there is no such
\* future or it was not polled yet.
NewNotify == [permit |-> FALSE, waiter |-> "none"]

\* Notify::notify_one: the notification goes to the waiter if one waits, and
\* is stored as the permit otherwise (once: a second permit is lost)
NotifyOne(n) ==
    IF n.waiter = "waiting" THEN [n EXCEPT !.waiter = "notified"]
    ELSE [n EXCEPT !.permit = TRUE]

\* a poll of Notified is Ready
NotifiedReady(n) == n.waiter = "notified" \/ n.permit

\* Notified returned Ready: its own notification if it has one, the permit
\* otherwise
TakeNotification(n) ==
    IF n.waiter = "notified" THEN [n EXCEPT !.waiter = "none"]
    ELSE [permit |-> FALSE, waiter |-> "none"]

\* the Notified future is dropped as the other branch of the select wins
DropNotified(n) == [n EXCEPT !.waiter = "none"]

\* the lines the server writes to its stderr: read_line accepts text and
\* fails on a line that is not UTF-8 (line 150)
ErrLineKinds == {"text", "binary"}

\* UnboundedSender::send on the upstream channel (line 213) succeeds while
\* the receiver lives
UpstreamAccepts == upstream_open

----------------------------------------------------------------------------
\* content_length = None (line 96)
NoLength == << >>

\* no call of recv_server_message is waiting
NoCall == [content_length |-> NoLength, line |-> << >>, filled |-> 0, taken |-> 0]

\* the codec harness is not running
CodecIdle ==
    /\ c_stream = << >> /\ c_eof = FALSE /\ c_stdin = << >> /\ c_unsent = << >>
    /\ c_buffer = << >> /\ c_content = << >>
    /\ c_pc = "off" /\ c_call = NoCall /\ c_fed = << >> /\ c_results = << >>

\* the three tasks and their channels right after Transport::start
TransportIdle ==
    /\ client_rx = << >> /\ next_serial = 1 /\ tx_open = TRUE
    /\ tx_refused = {}
    /\ initialize_notify = NewNotify /\ notify_count = 0
    /\ upstream = << >> /\ upstream_open = TRUE
    /\ got = [c \in Chans |-> << >>] /\ rx_dropped = {}
    /\ send_failed = {}
    /\ pending_requests = EmptyTable /\ lock = "free"
    /\ stdout = << >> /\ frames_out = 0 /\ stdout_eof = FALSE
    /\ err_lines = << >> /\ stderr_eof = FALSE
    /\ stdin_pipe = "open"
    /\ wire = << >> /\ write_failed = {}
    /\ r_pc = "read" /\ r_tx = 0 /\ r_result = NoResult /\ r_exit = "none"
    /\ e_pc = "read"
    /\ w_pc = "select" /\ w_msg = NoPayload /\ is_pending = TRUE
    /\ pending_messages = << >> /\ w_draining = FALSE
    /\ deq_pending = {} /\ discards = 0 /\ registered = {}
    /\ removed_by = [i \in Ids |-> << >>]
    /\ drain_set = {} /\ ready_count = 0

Init == TransportIdle /\ CodecIdle

\* The state once the handshake is over and nothing else has happened: the
\* caller fired the trigger (CallerNotify) and the send task ran its notified
\* branch with an empty pending_messages (WriterNotified, WriterFlushDone).
InitReady ==
    /\ CodecIdle
    /\ client_rx = << >> /\ next_serial = 1 /\ tx_open = TRUE
    /\ tx_refused = {}
    /\ initialize_notify = NewNotify /\ notify_count = 1
    /\ upstream = << Upcall("send", "initialized") >> /\ upstream_open = TRUE
    /\ got = [c \in Chans |-> << >>] /\ rx_dropped = {}
    /\ send_failed = {}
    /\ pending_requests = EmptyTable /\ lock = "free"
    /\ stdout = << >> /\ frames_out = 0 /\ stdout_eof = FALSE
    /\ err_lines = << >> /\ stderr_eof = FALSE
    /\ stdin_pipe = "open"
    /\ wire = << >> /\ write_failed = {}
    /\ r_pc = "read" /\ r_tx = 0 /\ r_result = NoResult /\ r_exit = "none"
    /\ e_pc = "read"
    /\ w_pc = "select" /\ w_msg = NoPayload /\ is_pending = FALSE
    /\ pending_messages = << >> /\ w_draining = FALSE
    /\ deq_pending = {} /\ discards = 0 /\ registered = {}
    /\ removed_by = [i \in Ids |-> << >>]
    /\ drain_set = {} /\ ready_count = 1

\* the variables more than one party writes
sharedVars == << client_rx, stdout, err_lines, initialize_notify, upstream, got, send_failed,
                 pending_requests, lock >>

----------------------------------------------------------------------------
\* The caller

\* UnboundedSender<Payload>::send of one of the payloads in P: the payload
\* is queued while the receiver lives; once the send task has ended its
\* client_rx is dropped and the send returns Err with the payload
CallerSendOf(P, max) ==
    /\ tx_open /\ next_serial <= max
    /\ \E p \in P :
          IF w_pc = "done"
          THEN /\ tx_refused' = tx_refused \cup {p.serial}
               /\ client_rx' = client_rx
          ELSE /\ client_rx' = Append(client_rx, p)
               /\ tx_refused' = tx_refused
    /\ next_serial' = next_serial + 1
    /\ UNCHANGED << tx_open, notify_count, upstream_open, rx_dropped >>
    /\ UNCHANGED << stdout, err_lines, initialize_notify, upstream, got, send_failed,
                    pending_requests, lock >>
    /\ UNCHANGED << serverVars, readerVars, errVars, writerVars >>
    /\ UNCHANGED codecVars

CallerSend == CallerSendOf(Payloads(next_serial), MaxPayloads)
CallerSendRequest == CallerSendOf(Requests(next_serial), MaxRequests)
CallerSendHover == CallerSendOf(Hovers(next_serial), MaxRequests)

\* the last UnboundedSender<Payload> is dropped
CallerDropTx ==
    /\ tx_open
    /\ tx_open' = FALSE
    /\ UNCHANGED << next_serial, tx_refused, notify_count, upstream_open, rx_dropped >>
    /\ UNCHANGED << sharedVars, serverVars, readerVars, errVars, writerVars >>
    /\ UNCHANGED codecVars

\* the caller fires the trigger: initialize_notify.notify_one()
CallerNotify ==
    /\ notify_count < MaxNotify
    /\ notify_count' = notify_count + 1
    /\ initialize_notify' = NotifyOne(initialize_notify)
    /\ UNCHANGED << next_serial, tx_open, tx_refused, upstream_open, rx_dropped >>
    /\ UNCHANGED << client_rx, stdout, err_lines, upstream, got, send_failed,
                    pending_requests, lock >>
    /\ UNCHANGED << serverVars, readerVars, errVars, writerVars >>
    /\ UNCHANGED codecVars

\* the caller fires the trigger once, after its handshake request succeeded
CallerNotifyOnce == notify_count = 0 /\ CallerNotify

\* the caller stops waiting for a request's completion (a timeout)
CallerDropRx ==
    /\ Cardinality(rx_dropped) < MaxRxDrops
    /\ \E c \in 1..(next_serial - 1) : rx_dropped' = rx_dropped \cup {c}
    /\ rx_dropped' # rx_dropped
    /\ UNCHANGED << next_serial, tx_open, tx_refused, notify_count, upstream_open >>
    /\ UNCHANGED << sharedVars, serverVars, readerVars, errVars, writerVars >>
    /\ UNCHANGED codecVars

\* the UnboundedReceiver of the upstream channel is dropped
CallerDropUpstream ==
    /\ upstream_open
    /\ upstream_open' = FALSE
    /\ UNCHANGED << next_serial, tx_open, tx_refused, notify_count, rx_dropped >>
    /\ UNCHANGED << sharedVars, serverVars, readerVars, errVars, writerVars >>
    /\ UNCHANGED codecVars

----------------------------------------------------------------------------
\* The language server

\* the server writes one of the frames in F to its stdout
ServerEmitOf(F) ==
    /\ ~stdout_eof /\ frames_out < MaxFrames
    /\ \E f \in F : stdout' = Append(stdout, f)
    /\ frames_out' = frames_out + 1
    /\ UNCHANGED << stdout_eof, stderr_eof, stdin_pipe >>
    /\ UNCHANGED << client_rx, err_lines, initialize_notify, upstream, got, send_failed,
                    pending_requests, lock >>
    /\ UNCHANGED << callerVars, readerVars, errVars, writerVars >>
    /\ UNCHANGED codecVars

ServerEmit == ServerEmitOf(Frames)
ServerEmitNoFailure == ServerEmitOf(Successes \cup Others)

ServerCloseStdout ==
    /\ ~stdout_eof
    /\ stdout_eof' = TRUE
    /\ UNCHANGED << frames_out, stderr_eof, stdin_pipe >>
    /\ UNCHANGED << sharedVars, callerVars, readerVars, errVars, writerVars >>
    /\ UNCHANGED codecVars

ServerErrLine ==
    /\ ~stderr_eof /\ Len(err_lines) < MaxErrLines
    /\ \E kind \in ErrLineKinds : err_lines' = Append(err_lines, kind)
    /\ UNCHANGED << client_rx, stdout, initialize_notify, upstream, got, send_failed,
                    pending_requests, lock >>
    /\ UNCHANGED << serverVars, callerVars, readerVars, errVars, writerVars >>
    /\ UNCHANGED codecVars

ServerCloseStderr ==
    /\ ~stderr_eof
    /\ stderr_eof' = TRUE
    /\ UNCHANGED << frames_out, stdout_eof, stdin_pipe >>
    /\ UNCHANGED << sharedVars, callerVars, readerVars, errVars, writerVars >>
    /\ UNCHANGED codecVars

\* the server closes its stdin, or exits: the read end of the pipe is gone
ServerCloseStdin ==
    /\ stdin_pipe # "closed"
    /\ stdin_pipe' = "closed"
    /\ UNCHANGED << frames_out, stdout_eof, stderr_eof >>
    /\ UNCHANGED << sharedVars, callerVars, readerVars, errVars, writerVars >>
    /\ UNCHANGED codecVars

\* the server stops reading its stdin and the pipe is full
ServerStallStdin ==
    /\ stdin_pipe = "open"
    /\ stdin_pipe' = "full"
    /\ UNCHANGED << frames_out, stdout_eof, stderr_eof >>
    /\ UNCHANGED << sharedVars, callerVars, readerVars, errVars, writerVars >>
    /\ UNCHANGED codecVars

----------------------------------------------------------------------------
\* The recv task: Transport::recv (lines 253-319)

\* Lookup taking an entry whatever its id
LookupFirst(table, id) ==
    IF Keys(table) = {} THEN 0 ELSE table[CHOOSE i \in Keys(table) : TRUE]

\* Lookup falling back to another entry when the id has none
LookupOrFirst(table, id) ==
    IF table[id] # 0 THEN table[id] ELSE LookupFirst(table, id)

\* Option<Sender> returned by pending_requests.remove(&id) (line 234);
\* 0 stands for None
Lookup(table, id) == table[id]

\* ResultOf taking every response for a success
ResultOfSuccess(f) == Ok(f.id)

\* the (id, result) pair of a jsonrpc::Output (lines 226-232)
ResultOf(f) == IF f.kind = "Success" THEN Ok(f.id) ELSE PeerErr(f.id)

\* what recv does when process_server_message returns Err (lines 275-278)
OnForwardError == "break"

\* the value the termination drain sends (line 291)
DrainValue == StreamClosed

\* DrainTake iterating over the table without removing (iter for drain)
DrainKeep(table, id) == table

\* the table once HashMap::drain has yielded the entry of id (line 290)
DrainTake(table, id) == Remove(table, id)

\* recv_server_message returned Ok(Output): process_request_response up to
\* the send (lines 226-234, 242-248).  The MutexGuard taken in the `if let`
\* scrutinee lives until the end of the `if let`, so it is still held while
\* the result is sent.
ReaderOutput ==
    /\ r_pc = "read" /\ stdout # << >> /\ lock = "free"
    /\ LET f == Head(stdout)
           tx == Lookup(pending_requests, f.id)
       IN /\ f.kind \in {"Success", "Failure"}
          /\ stdout' = Tail(stdout)
          /\ IF tx # 0
             THEN /\ pending_requests' = Remove(pending_requests, f.id)
                  /\ r_pc' = "resolve" /\ lock' = "reader"
                  /\ r_tx' = tx /\ r_result' = ResultOf(f)
                  /\ removed_by' = [removed_by EXCEPT ![f.id] = Append(@, "resolve")]
                  /\ discards' = discards
             ELSE /\ discards' = discards + 1
                  /\ UNCHANGED << pending_requests, r_pc, lock, r_tx, r_result,
                                  removed_by >>
    /\ UNCHANGED << r_exit, drain_set >>
    /\ UNCHANGED << client_rx, err_lines, initialize_notify, upstream, got, send_failed >>
    /\ UNCHANGED << callerVars, serverVars, errVars, writerVars >>
    /\ UNCHANGED codecVars

\* tx.send(result).await and the end of the `if let` (lines 235-241)
ReaderResolveSend ==
    /\ r_pc = "resolve"
    /\ ChanSend(r_tx, r_result)
    /\ lock' = "free"
    /\ r_pc' = "read" /\ r_tx' = 0 /\ r_result' = NoResult
    /\ UNCHANGED << r_exit, removed_by, drain_set, discards >>
    /\ UNCHANGED << client_rx, stdout, err_lines, initialize_notify, upstream, pending_requests >>
    /\ UNCHANGED << callerVars, serverVars, errVars, writerVars >>
    /\ UNCHANGED codecVars

\* recv_server_message returned Ok(Call): process_server_message forwards it
\* (lines 211-216); a failed send is returned as Err and recv breaks (275-278)
ReaderCall ==
    /\ r_pc = "read" /\ stdout # << >>
    /\ Head(stdout).kind = "Call"
    /\ stdout' = Tail(stdout)
    /\ IF UpstreamAccepts
       THEN /\ upstream' = Append(upstream, Upcall("recv", "call"))
            /\ UNCHANGED << r_pc, r_exit >>
       ELSE /\ upstream' = upstream
            /\ IF OnForwardError = "break"
               THEN r_pc' = "done" /\ r_exit' = "break"
               ELSE UNCHANGED << r_pc, r_exit >>
    /\ UNCHANGED << r_tx, r_result, removed_by, drain_set, discards >>
    /\ UNCHANGED << client_rx, err_lines, initialize_notify, got, send_failed,
                    pending_requests, lock >>
    /\ UNCHANGED << callerVars, serverVars, errVars, writerVars >>
    /\ UNCHANGED codecVars

\* recv takes the lock for the drain (line 290)
StartDrain ==
    /\ r_pc' = "drain" /\ lock' = "reader"
    /\ drain_set' = Keys(pending_requests)
    /\ UNCHANGED << r_tx, r_result, r_exit, removed_by, discards >>
    /\ UNCHANGED << client_rx, err_lines, initialize_notify, upstream, got, send_failed,
                    pending_requests >>
    /\ UNCHANGED << callerVars, serverVars, errVars, writerVars >>
    /\ UNCHANGED codecVars

\* recv_server_message returned Err with a decode error (lines 116, 129,
\* 131, 132, 137); lines 281-290
ReaderDecodeError ==
    /\ r_pc = "read" /\ lock = "free"
    /\ stdout # << >>
    /\ Head(stdout).kind = "Malformed"
    /\ stdout' = Tail(stdout)
    /\ StartDrain

\* recv_server_message panics in content.resize (line 130, "capacity
\* overflow") on a Content-Length above isize::MAX: the recv task ends
\* there, without the drain and the exit notification of lines 281-315
ReaderPanic ==
    /\ r_pc = "read" /\ stdout # << >>
    /\ Head(stdout).kind = "Oversized"
    /\ stdout' = Tail(stdout)
    /\ r_pc' = "done" /\ r_exit' = "panic"
    /\ UNCHANGED << r_tx, r_result, removed_by, drain_set, discards >>
    /\ UNCHANGED << client_rx, err_lines, initialize_notify, upstream, got, send_failed,
                    pending_requests, lock >>
    /\ UNCHANGED << callerVars, serverVars, errVars, writerVars >>
    /\ UNCHANGED codecVars

\* content.resize (line 130) asks for more than the allocator can give: the
\* allocation fails and the process aborts, all three tasks end where they
\* are
ReaderAbort ==
    /\ r_pc = "read" /\ stdout # << >>
    /\ Head(stdout).kind = "Unallocatable"
    /\ stdout' = Tail(stdout)
    /\ r_pc' = "done" /\ r_exit' = "abort"
    /\ e_pc' = "done" /\ w_pc' = "done"
    /\ UNCHANGED << r_tx, r_result, removed_by, drain_set, discards >>
    /\ UNCHANGED << w_msg, is_pending, pending_messages, w_draining, wire, write_failed,
                    deq_pending, registered, ready_count >>
    /\ UNCHANGED << client_rx, err_lines, initialize_notify, upstream, got, send_failed,
                    pending_requests, lock >>
    /\ UNCHANGED << callerVars, serverVars >>
    /\ UNCHANGED codecVars

\* recv_server_message returned Err(Error::StreamClosed) at the end of the
\* stream (line 100); lines 281-290
ReaderStreamClosed ==
    /\ r_pc = "read" /\ lock = "free"
    /\ stdout = << >> /\ stdout_eof
    /\ stdout' = stdout
    /\ StartDrain

\* one iteration of `for (id, tx) in ...drain()` (lines 290-297); a HashMap
\* yields its entries in no particular order
ReaderDrainOne ==
    /\ r_pc = "drain"
    /\ \E id \in Keys(pending_requests) :
          /\ ChanSend(pending_requests[id], DrainValue)
          /\ pending_requests' = DrainTake(pending_requests, id)
          /\ removed_by' = [removed_by EXCEPT ![id] = Append(@, "drain")]
    /\ UNCHANGED << r_pc, r_tx, r_result, r_exit, drain_set, discards >>
    /\ UNCHANGED << client_rx, stdout, err_lines, initialize_notify, upstream, lock >>
    /\ UNCHANGED << callerVars, serverVars, errVars, writerVars >>
    /\ UNCHANGED codecVars

\* the drain is over: the MutexGuard, a temporary of the `for` expression,
\* is dropped at the end of the loop (line 297)
ReaderDrainDone ==
    /\ r_pc = "drain" /\ Keys(pending_requests) = {}
    /\ lock' = "free"
    /\ r_pc' = "exit"
    /\ UNCHANGED << r_tx, r_result, r_exit, removed_by, drain_set, discards >>
    /\ UNCHANGED << client_rx, stdout, err_lines, initialize_notify, upstream, got,
                    send_failed, pending_requests >>
    /\ UNCHANGED << callerVars, serverVars, errVars, writerVars >>
    /\ UNCHANGED codecVars

\* the exit notification is forwarded (a failed send is only logged) and
\* recv breaks (lines 299-317)
ReaderExit ==
    /\ r_pc = "exit"
    /\ upstream' = IF UpstreamAccepts
                   THEN Append(upstream, Upcall("recv", "exit"))
                   ELSE upstream
    /\ r_pc' = "done" /\ r_exit' = "sequence"
    /\ UNCHANGED << r_tx, r_result, removed_by, drain_set, discards >>
    /\ UNCHANGED << client_rx, stdout, err_lines, initialize_notify, got, send_failed,
                    pending_requests, lock >>
    /\ UNCHANGED << callerVars, serverVars, errVars, writerVars >>
    /\ UNCHANGED codecVars

----------------------------------------------------------------------------
\* The err task: Transport::err (lines 321-334)

\* recv_server_error returned Ok: the line is logged (lines 150-155)
ErrLine ==
    /\ e_pc = "read" /\ err_lines # << >> /\ Head(err_lines) = "text"
    /\ err_lines' = Tail(err_lines)
    /\ UNCHANGED << client_rx, stdout, initialize_notify, upstream, got, send_failed,
                    pending_requests, lock >>
    /\ UNCHANGED << callerVars, serverVars, readerVars, errVars, writerVars >>
    /\ UNCHANGED codecVars

\* recv_server_error returned Err, the io error of a line that is not UTF-8
\* or StreamClosed at the end of the stream (lines 150-152): break (lines
\* 328-331)
ErrExit ==
    /\ e_pc = "read"
    /\ IF err_lines # << >>
       THEN Head(err_lines) = "binary" /\ err_lines' = Tail(err_lines)
       ELSE stderr_eof /\ err_lines' = err_lines
    /\ e_pc' = "done"
    /\ UNCHANGED << client_rx, stdout, initialize_notify, upstream, got, send_failed,
                    pending_requests, lock >>
    /\ UNCHANGED << callerVars, serverVars, readerVars, writerVars >>
    /\ UNCHANGED codecVars

----------------------------------------------------------------------------
\* The send task: Transport::send (lines 336-434)

\* Admit without the `continue` of line 414: notifications are deferred too
AdmitDeferAll(p, pend) ==
    IF pend /\ is_shutdown(p) THEN "exit"
    ELSE IF pend /\ ~is_initialize(p) THEN "defer"
         ELSE "send"

\* what the recv branch of the select does with a dequeued payload
\* (lines 408-426): "exit", "drop", "defer" or "send"
Admit(p, pend) ==
    IF pend /\ is_shutdown(p) THEN "exit"
    ELSE IF pend /\ ~is_initialize(p)
         THEN IF p.kind = "Notification" THEN "drop" ELSE "defer"
         ELSE "send"

\* Defer inserting at the front of the queue
DeferFront(q, p) == << p >> \o q

\* pending_messages.push(msg) (line 418)
Defer(q, p) == Append(q, p)

\* TakeDeferred popping from the back of the queue
TakeDeferredLifo(q) == << q[Len(q)], SubSeq(q, 1, Len(q) - 1) >>

\* pending_messages.drain(..) yields the next payload (line 396): the
\* payload and the rest of the queue
TakeDeferred(q) == << Head(q), Tail(q) >>

\* SendEntry without the insert of the Payload::Request arm
SendEntryNoInsert(p) == "write"

\* where send_payload_to_server starts for a payload (lines 164-174)
SendEntry(p) == IF p.kind = "Request" THEN "register" ELSE "write"

\* OnChannelClosed flushing pending_messages instead of breaking
OnChannelClosedFlush == "flush"

\* what the recv branch does once client_rx.recv() returns None (427-430)
OnChannelClosed == "done"

\* the notified branch of the select (lines 376-393); `biased` polls it first
WriterNotified ==
    /\ w_pc = "select" /\ NotifiedReady(initialize_notify)
    /\ initialize_notify' = TakeNotification(initialize_notify)
    /\ is_pending' = FALSE
    /\ upstream' = IF UpstreamAccepts
                   THEN Append(upstream, Upcall("send", "initialized"))
                   ELSE upstream
    /\ w_pc' = "flush" /\ w_draining' = TRUE
    /\ ready_count' = ready_count + 1
    /\ UNCHANGED << w_msg, pending_messages, wire, write_failed, deq_pending, registered >>
    /\ UNCHANGED << client_rx, stdout, err_lines, got, send_failed,
                    pending_requests, lock >>
    /\ UNCHANGED << callerVars, serverVars, readerVars, errVars >>
    /\ UNCHANGED codecVars

\* the select finds neither branch ready: the send task waits, its Notified
\* future registered with initialize_notify (lines 374-376, 406)
WriterPark ==
    /\ w_pc = "select" /\ initialize_notify = NewNotify
    /\ client_rx = << >> /\ tx_open
    /\ initialize_notify' = [initialize_notify EXCEPT !.waiter = "waiting"]
    /\ UNCHANGED << client_rx, stdout, err_lines, upstream, got, send_failed,
                    pending_requests, lock >>
    /\ UNCHANGED << callerVars, serverVars, readerVars, errVars, writerVars >>
    /\ UNCHANGED codecVars

\* one iteration of `for msg in pending_messages.drain(..)` (lines 396-398)
WriterFlushNext ==
    /\ w_pc = "flush" /\ pending_messages # << >>
    /\ w_msg' = TakeDeferred(pending_messages)[1]
    /\ pending_messages' = TakeDeferred(pending_messages)[2]
    /\ w_pc' = SendEntry(TakeDeferred(pending_messages)[1])
    /\ UNCHANGED << is_pending, w_draining, wire, write_failed, deq_pending, registered,
                    ready_count >>
    /\ UNCHANGED << sharedVars >>
    /\ UNCHANGED << callerVars, serverVars, readerVars, errVars >>
    /\ UNCHANGED codecVars

\* the drain loop is over; back to the select (lines 404-405)
WriterFlushDone ==
    /\ w_pc = "flush" /\ pending_messages = << >>
    /\ w_pc' = "select" /\ w_draining' = FALSE
    /\ UNCHANGED << w_msg, is_pending, pending_messages, wire, write_failed, deq_pending,
                    registered, ready_count >>
    /\ UNCHANGED << sharedVars >>
    /\ UNCHANGED << callerVars, serverVars, readerVars, errVars >>
    /\ UNCHANGED codecVars

\* the recv branch with Some(msg) (lines 406-426); when the task ends
\* (line 410) its client_rx is dropped with what is left in it
WriterRecv ==
    /\ w_pc = "select" /\ ~NotifiedReady(initialize_notify) /\ client_rx # << >>
    /\ initialize_notify' = DropNotified(initialize_notify)
    /\ LET p == Head(client_rx)
           a == Admit(p, is_pending)
       IN /\ client_rx' = IF a = "exit" THEN << >> ELSE Tail(client_rx)
          /\ deq_pending' = IF is_pending THEN deq_pending \cup {p}
                                          ELSE deq_pending
          /\ w_pc' = CASE a = "exit"  -> "done"
                       [] a = "send"  -> SendEntry(p)
                       [] OTHER       -> "select"
          /\ w_msg' = IF a = "send" THEN p ELSE w_msg
          /\ pending_messages' = IF a = "defer" THEN Defer(pending_messages, p)
                                                ELSE pending_messages
    /\ UNCHANGED << is_pending, w_draining, wire, write_failed, registered, ready_count >>
    /\ UNCHANGED << stdout, err_lines, upstream, got, send_failed,
                    pending_requests, lock >>
    /\ UNCHANGED << callerVars, serverVars, readerVars, errVars >>
    /\ UNCHANGED codecVars

\* the recv branch with None: every sender is dropped and the queue is
\* empty (lines 427-430)
WriterChannelClosed ==
    /\ w_pc = "select" /\ ~NotifiedReady(initialize_notify)
    /\ client_rx = << >> /\ ~tx_open
    /\ initialize_notify' = DropNotified(initialize_notify)
    /\ w_pc' = OnChannelClosed
    /\ UNCHANGED << w_msg, is_pending, pending_messages, w_draining, wire, write_failed,
                    deq_pending, registered, ready_count >>
    /\ UNCHANGED << client_rx, stdout, err_lines, upstream, got, send_failed,
                    pending_requests, lock >>
    /\ UNCHANGED << callerVars, serverVars, readerVars, errVars >>
    /\ UNCHANGED codecVars

\* send_payload_to_server, Payload::Request arm: the insert under the lock
\* (lines 165-170); the guard is dropped at the end of the statement
WriterRegister ==
    /\ w_pc = "register" /\ lock = "free"
    /\ pending_requests' = Insert(pending_requests, w_msg.id, w_msg.serial)
    /\ registered' = registered \cup {w_msg.id}
    /\ w_pc' = "write"
    /\ UNCHANGED << w_msg, is_pending, pending_messages, w_draining, wire, write_failed,
                    deq_pending, ready_count >>
    /\ UNCHANGED << client_rx, stdout, err_lines, initialize_notify, upstream, got,
                    send_failed, lock >>
    /\ UNCHANGED << callerVars, serverVars, readerVars, errVars >>
    /\ UNCHANGED codecVars

\* send_string_to_server returns Ok: header and body were written and
\* flushed (lines 175, 188-197).  While the pipe is full the flush waits.
WriterWrite ==
    /\ w_pc = "write" /\ stdin_pipe = "open"
    /\ wire' = Append(wire, w_msg)
    /\ w_msg' = NoPayload
    /\ w_pc' = IF w_draining THEN "flush" ELSE "select"
    /\ UNCHANGED << is_pending, pending_messages, w_draining, deq_pending,
                    registered, write_failed, ready_count >>
    /\ UNCHANGED << sharedVars >>
    /\ UNCHANGED << callerVars, serverVars, readerVars, errVars >>
    /\ UNCHANGED codecVars

\* send_string_to_server returns Err, the pipe being closed (lines 190-195):
\* send_payload_to_server returns it, the send task logs it and goes on
\* (lines 400-402, 422-424); the frame does not reach the server, and the
\* entry a request inserted before the write stays in pending_requests
WriterWriteFailed ==
    /\ w_pc = "write" /\ stdin_pipe = "closed"
    /\ write_failed' = write_failed \cup {w_msg}
    /\ w_msg' = NoPayload
    /\ w_pc' = IF w_draining THEN "flush" ELSE "select"
    /\ UNCHANGED << is_pending, pending_messages, w_draining, wire, deq_pending,
                    registered, ready_count >>
    /\ UNCHANGED << sharedVars >>
    /\ UNCHANGED << callerVars, serverVars, readerVars, errVars >>
    /\ UNCHANGED codecVars

----------------------------------------------------------------------------
\* The frame codec: bytes, lines and headers (lines 96-127)
\*
\* A stream is a sequence of bytes and a byte is a number in 0..255.  Text
\* is written as the sequence of its characters and turned into bytes.

\* the printable ASCII characters, in the order of their codes 32..126 (two
\* of them by name)
Printable ==
    << " ", "!", "\"", "#", "$", "%", "&", "apostrophe", "(", ")", "*", "+", ",", "-",
       ".", "/", "0", "1", "2", "3", "4", "5", "6", "7", "8", "9", ":", ";",
       "<", "=", ">", "?", "@", "A", "B", "C", "D", "E", "F", "G", "H", "I",
       "J", "K", "L", "M", "N", "O", "P", "Q", "R", "S", "T", "U", "V", "W",
       "X", "Y", "Z", "[", "\\", "]", "^", "_", "grave", "a", "b", "c", "d", "e",
       "f", "g", "h", "i", "j", "k", "l", "m", "n", "o", "p", "q", "r", "s",
       "t", "u", "v", "w", "x", "y", "z", "{", "|", "}", "~" >>

\* str::as_bytes of ASCII text (lines 189, 193)
Byte(c) == 31 + CHOOSE i \in 1..Len(Printable) : Printable[i] = c
Bytes(chars) == [i \in 1..Len(chars) |-> Byte(chars[i])]

CR == 13
LF == 10
SP == 32
QUOTE == 34
COLON == 58
PLUS == 43
ZERO == 48

\* a continuation byte of UTF-8
IsCont(b) == b \in 128..191

\* the length of the UTF-8 character that starts at position i of bytes, 0
\* if none does (core::str::from_utf8: no overlong forms, no surrogates,
\* nothing above U+10FFFF)
CharLen(bytes, i) ==
    LET b == bytes[i]
        at(k) == IF i + k <= Len(bytes) THEN bytes[i + k] ELSE 0
    IN CASE b <= 127 -> 1
         [] b \in 194..223 -> IF IsCont(at(1)) THEN 2 ELSE 0
         [] b = 224 -> IF at(1) \in 160..191 /\ IsCont(at(2)) THEN 3 ELSE 0
         [] b \in (225..236) \cup (238..239) ->
                IF IsCont(at(1)) /\ IsCont(at(2)) THEN 3 ELSE 0
         [] b = 237 -> IF at(1) \in 128..159 /\ IsCont(at(2)) THEN 3 ELSE 0
         [] b = 240 -> IF at(1) \in 144..191 /\ IsCont(at(2)) /\ IsCont(at(3))
                       THEN 4 ELSE 0
         [] b \in 241..243 -> IF IsCont(at(1)) /\ IsCont(at(2)) /\ IsCont(at(3))
                              THEN 4 ELSE 0
         [] b = 244 -> IF at(1) \in 128..143 /\ IsCont(at(2)) /\ IsCont(at(3))
                       THEN 4 ELSE 0
         [] OTHER -> 0

\* std::str::from_utf8 succeeds (line 132; also inside read_line, line 99):
\* every byte that is no continuation byte starts a character, and every
\* continuation byte belongs to the character started before it
IsUtf8(bytes) ==
    \A i \in 1..Len(bytes) :
        IF ~IsCont(bytes[i]) THEN CharLen(bytes, i) > 0
        ELSE \E j \in 1..(i - 1) :
                /\ i - j <= 3 /\ ~IsCont(bytes[j])
                /\ \A k \in (j + 1)..(i - 1) : IsCont(bytes[k])
                /\ CharLen(bytes, j) > i - j

\* the number of characters of a UTF-8 text
CharCount(bytes) == Cardinality({i \in 1..Len(bytes) : ~IsCont(bytes[i])})

\* position of the first byte b of bytes, 0 if there is none
IndexOf(bytes, b) ==
    IF \E i \in 1..Len(bytes) : bytes[i] = b
    THEN CHOOSE i \in 1..Len(bytes) :
            bytes[i] = b /\ \A j \in 1..(i - 1) : bytes[j] # b
    ELSE 0

DropFirst(bytes, n) == SubSeq(bytes, n + 1, Len(bytes))

\* AsyncBufReadExt::read_line into the cleared buffer (lines 98-101), line
\* being the bytes the call has taken before: it takes the bytes up to and
\* including the next LF, or what is left at the end of the stream; "Eof"
\* is a read of 0 bytes, "Err" a line that is not UTF-8, and "Blocked" a
\* read that has taken every byte of the stream and waits for more
ReadLine(line, stream, eof) ==
    LET k == IndexOf(stream, LF)
        n == IF k > 0 THEN k ELSE Len(stream)
        whole == line \o SubSeq(stream, 1, n)
    IN IF k = 0 /\ ~eof THEN [tag |-> "Blocked", line |-> whole, rest |-> << >>]
       ELSE IF whole = << >> THEN [tag |-> "Eof", line |-> << >>, rest |-> stream]
       ELSE IF ~IsUtf8(whole)
            THEN [tag |-> "Err", line |-> << >>, rest |-> DropFirst(stream, n)]
            ELSE [tag |-> "Line", line |-> whole, rest |-> DropFirst(stream, n)]

\* char::is_whitespace of the character that starts at position i of a
\* text: U+0009..U+000D, U+0020, U+0085, U+00A0, U+1680, U+2000..U+200A,
\* U+2028, U+2029, U+202F, U+205F, U+3000
Whitespace(text, i) ==
    LET b == text[i]
        at(k) == IF i + k <= Len(text) THEN text[i + k] ELSE 0
    IN \/ b \in 9..13 \/ b = SP
       \/ b = 194 /\ at(1) \in {133, 160}
       \/ b = 225 /\ at(1) = 154 /\ at(2) = 128
       \/ b = 226 /\ at(1) = 128 /\ at(2) \in (128..138) \cup {168, 169, 175}
       \/ b = 226 /\ at(1) = 129 /\ at(2) = 159
       \/ b = 227 /\ at(1) = 128 /\ at(2) = 128

\* str::trim (line 110) of a UTF-8 text: from its first character that is
\* no whitespace to its last
Trim(line) ==
    LET keep == {i \in 1..Len(line) : ~IsCont(line[i]) /\ ~Whitespace(line, i)}
        first == CHOOSE i \in keep : \A j \in keep : i <= j
        last == CHOOSE i \in keep : \A j \in keep : i >= j
    IN IF keep = {} THEN << >>
       ELSE SubSeq(line, first, last + CharLen(line, last) - 1)

\* header.split_once(": ") (line 112): the position of the first ": ", 0
\* for None
DelimiterAt(header) ==
    LET at == {i \in 1..(Len(header) - 1) : header[i] = COLON /\ header[i + 1] = SP}
    IN IF at = {} THEN 0 ELSE CHOOSE i \in at : \A j \in at : i <= j

HeaderKey(header) == SubSeq(header, 1, DelimiterAt(header) - 1)
HeaderValue(header) == DropFirst(header, DelimiterAt(header) + 1)

ContentLengthName ==
    Bytes(<< "C", "o", "n", "t", "e", "n", "t", "-", "L", "e", "n", "g", "t", "h" >>)

\* the arm of `match parts` a header line takes (lines 114-126)
ClassifyHeader(header) ==
    IF DelimiterAt(header) = 0 THEN "skip"
    ELSE IF HeaderKey(header) = ContentLengthName THEN "length"
    ELSE "ignore"

\* A usize is written as its decimal digits without leading zeros, so that
\* every value up to usize::MAX has a name; UsizeValue is the number itself.
IsDigit(b) == b \in ZERO..(ZERO + 9)
DigitValue(b) == b - ZERO

\* usize::MAX of a 64-bit target
UsizeMax ==
    Bytes(<< "1", "8", "4", "4", "6", "7", "4", "4", "0", "7", "3", "7", "0", "9",
             "5", "5", "1", "6", "1", "5" >>)

\* digits without their leading zeros
Canonical(ds) ==
    LET nz == {i \in 1..Len(ds) : ds[i] # ZERO}
    IN IF nz = {} THEN << ZERO >>
       ELSE SubSeq(ds, CHOOSE i \in nz : \A j \in nz : i <= j, Len(ds))

\* a > b for two numbers written without leading zeros
DigitsAbove(a, b) ==
    \/ Len(a) > Len(b)
    \/ /\ Len(a) = Len(b)
       /\ \E i \in 1..Len(a) : a[i] > b[i] /\ \A j \in 1..(i - 1) : a[j] = b[j]

\* the number the first k digits of ds write
RECURSIVE DecimalPrefix(_, _)
DecimalPrefix(ds, k) ==
    IF k = 0 THEN 0 ELSE 10 * DecimalPrefix(ds, k - 1) + DigitValue(ds[k])

UsizeValue(ds) == DecimalPrefix(ds, Len(ds))

\* the number is greater than k, a number below 10^9
UsizeAbove(ds, k) == Len(ds) > 9 \/ UsizeValue(ds) > k

\* value.parse::<usize>() (line 116): an optional "+" and one or more
\* digits of a number up to usize::MAX. The characters are taken from the
\* left: the overflow of the digits before a character that is no digit
\* is met first
ParseUsize(value) ==
    LET ds == IF value # << >> /\ value[1] = PLUS THEN Tail(value) ELSE value
        bad == {i \in 1..Len(ds) : ~IsDigit(ds[i])}
        lead == IF bad = {} THEN ds
                ELSE SubSeq(ds, 1, (CHOOSE i \in bad : \A j \in bad : i <= j) - 1)
        err(kind) == [tag |-> "Err", digits |-> << >>, kind |-> kind]
    IN IF value = << >> THEN err("Empty")
       ELSE IF ds = << >> THEN err("InvalidDigit")
       ELSE IF DigitsAbove(Canonical(lead), UsizeMax) THEN err("PosOverflow")
       ELSE IF bad # {} THEN err("InvalidDigit")
       ELSE [tag |-> "Ok", digits |-> Canonical(ds), kind |-> ""]

\* format!("{}", n) for a usize (line 189)
RECURSIVE FormatUsize(_)
FormatUsize(n) ==
    IF n < 10 THEN << ZERO + n >>
    ELSE FormatUsize(n \div 10) \o << ZERO + (n % 10) >>

\* isize::MAX of a 64-bit target: the greatest capacity of a Vec (line 130)
IsizeMax ==
    Bytes(<< "9", "2", "2", "3", "3", "7", "2", "0", "3", "6", "8", "5", "4", "7",
             "7", "5", "8", "0", "7" >>)

\* the address space of a process (2^47 bytes): no allocation is larger
AddressSpace ==
    Bytes(<< "1", "4", "0", "7", "3", "7", "4", "8", "8", "3", "5", "5", "3", "2",
             "8" >>)

\* the one element of a singleton set
Only(S) == CHOOSE x \in S : TRUE

\* the loop over the header lines (lines 97-127), with content_length so far
\* and the bytes read_line has taken of the line it is at: "Body" at the
\* blank line, "Closed" at the end of the stream, "Err", and "Blocked" when
\* read_line waits; buffer is what the line buffer holds then (nothing while
\* read_line waits).  HeaderStep is one iteration, r being what read_line
\* returned.
RECURSIVE ReadHeaders(_, _, _, _)
HeaderStep(r, eof, content_length) ==
    LET header == Trim(r.line)
        class == ClassifyHeader(header)
        value == ParseUsize(HeaderValue(header))
        end(tag, err) == [tag |-> tag, err |-> err, content_length |-> content_length,
                          rest |-> r.rest,
                          buffer |-> IF tag = "Blocked" THEN << >> ELSE r.line,
                          line |-> IF tag = "Blocked" THEN r.line ELSE << >>]
    IN IF r.tag = "Blocked" THEN end("Blocked", "")
       ELSE IF r.tag = "Eof" THEN end("Closed", "StreamClosed")
       ELSE IF r.tag = "Err" THEN end("Err", "io: stream did not contain valid UTF-8")
       ELSE IF r.line = << CR, LF >> THEN end("Body", "")
       ELSE IF class = "length" /\ value.tag = "Err"
            THEN end("Err", "invalid content length")
       ELSE ReadHeaders(<< >>, r.rest, eof,
                        IF class = "length" THEN value.digits ELSE content_length)

ReadHeaders(line, stream, eof, content_length) ==
    Only({HeaderStep(r, eof, content_length) : r \in {ReadLine(line, stream, eof)}})

\* a Vec too long to be written out: its length and the bytes at its start,
\* the rest being zeros
LongVec(len, head) == [len |-> len, head |-> head]

\* content.resize(content_length, 0) (line 130) for a length it can be
\* resized to: the bytes the vector held stay, zeros follow
Resize(content, len) ==
    IF Len(len) > 9 THEN LongVec(len, content)
    ELSE [i \in 1..UsizeValue(len) |-> IF i <= Len(content) THEN content[i] ELSE 0]

\* what content.resize (line 130) comes to: it panics on a length above
\* isize::MAX ("capacity overflow"), and the process aborts when the
\* allocation fails.  Whether the allocator gives 10^9 bytes or more is up
\* to the machine (alloc); it gives less, and never more than the address
\* space.
ResizeOutcome(len, alloc) ==
    IF DigitsAbove(len, IsizeMax) THEN "Panic"
    ELSE IF DigitsAbove(len, AddressSpace) \/ (Len(len) > 9 /\ ~alloc) THEN "Abort"
    ELSE "Ok"

----------------------------------------------------------------------------
\* The frame codec: message bodies.  The jsonrpc types and their serde
\* implementations are not part of transport.rs; the shapes are those of the
\* wire format: `id` for requests and responses, `method` and `params` for
\* requests and notifications, `result` or `error` for responses.

CodecIds == {1, 2}
CodecValues == {"null", "text"}

NoMessage == [shape |-> "None", id |-> 0, method |-> "", value |-> ""]
MethodCall(i, v) ==
    [shape |-> "MethodCall", id |-> i, method |-> "a", value |-> v]
NotificationCall(v) ==
    [shape |-> "Notification", id |-> 0, method |-> "a", value |-> v]
OutputSuccess(i, v) ==
    [shape |-> "Success", id |-> i, method |-> "", value |-> v]
OutputFailure(i) ==
    [shape |-> "Failure", id |-> i, method |-> "", value |-> "error"]

\* jsonrpc::MethodCall, what Payload::Request carries (line 25)
MethodCalls == {MethodCall(i, v) : i \in CodecIds, v \in CodecValues}

\* enum ServerMessage (lines 35-40): Output or Call
ServerMessages ==
    MethodCalls
    \cup {NotificationCall(v) : v \in CodecValues}
    \cup {OutputSuccess(i, v) : i \in CodecIds, v \in CodecValues}
    \cup {OutputFailure(i) : i \in CodecIds}

JsonString(text) == << QUOTE >> \o text \o << QUOTE >>
JsonMember(name, text) == JsonString(Bytes(name)) \o << COLON >> \o text
JsonValue(v) ==
    CASE v = "null"  -> Bytes(<< "n", "u", "l", "l" >>)
      [] v = "text"  -> JsonString(<< 195, 169 >>)
      [] v = "error" -> Bytes(<< "{" >>)
                        \o JsonMember(<< "c", "o", "d", "e" >>, Bytes(<< "0" >>))
                        \o Bytes(<< "," >>)
                        \o JsonMember(<< "m", "e", "s", "s", "a", "g", "e" >>,
                                      JsonString(<< >>))
                        \o Bytes(<< "}" >>)
JsonVersion ==
    JsonMember(<< "j", "s", "o", "n", "r", "p", "c" >>,
               JsonString(Bytes(<< "2", ".", "0" >>)))
JsonId(i) == JsonMember(<< "i", "d" >>, FormatUsize(i))
JsonMethod(m) ==
    JsonMember(<< "m", "e", "t", "h", "o", "d" >>, JsonString(Bytes(<< m >>)))
JsonParams(v) == JsonMember(<< "p", "a", "r", "a", "m", "s" >>, JsonValue(v))
JsonResult(v) == JsonMember(<< "r", "e", "s", "u", "l", "t" >>, JsonValue(v))
JsonError(v) == JsonMember(<< "e", "r", "r", "o", "r" >>, JsonValue(v))

\* serde_json::to_string (lines 170-173)
to_string(m) ==
    Bytes(<< "{" >>) \o JsonVersion \o Bytes(<< "," >>)
    \o (CASE m.shape = "MethodCall" ->
                JsonMethod(m.method) \o Bytes(<< "," >>) \o JsonParams(m.value)
                \o Bytes(<< "," >>) \o JsonId(m.id)
           [] m.shape = "Notification" ->
                JsonMethod(m.method) \o Bytes(<< "," >>) \o JsonParams(m.value)
           [] m.shape = "Success" ->
                JsonResult(m.value) \o Bytes(<< "," >>) \o JsonId(m.id)
           [] m.shape = "Failure" ->
                JsonError(m.value) \o Bytes(<< "," >>) \o JsonId(m.id))
    \o Bytes(<< "}" >>)

\* sonic_rs::from_slice::<ServerMessage> (line 137): the message the text
\* encodes, NoMessage for Err; ServerMessageTexts is the text of every
\* message
ServerMessageTexts == [m \in ServerMessages |-> to_string(m)]
from_slice(content) ==
    IF \E m \in ServerMessages : ServerMessageTexts[m] = content
    THEN CHOOSE m \in ServerMessages : ServerMessageTexts[m] = content
    ELSE NoMessage

----------------------------------------------------------------------------
\* The frame codec: reading and writing one frame

\* the vector once read_exact has put bytes into it behind the first
\* `filled` ones (line 131)
Filled(content, len, filled, bytes) ==
    LET put(v) == [i \in 1..Len(v) |->
                     IF i > filled /\ i <= filled + Len(bytes)
                     THEN bytes[i - filled] ELSE v[i]]
        reach == IF Len(content.head) > filled + Len(bytes)
                 THEN Len(content.head) ELSE filled + Len(bytes)
        head == [i \in 1..reach |->
                   IF i <= Len(content.head) THEN content.head[i] ELSE 0]
    IN IF Len(len) > 9 THEN LongVec(len, put(head)) ELSE put(content)

\* reader.read_exact(content) and what follows it (lines 131-141), the call
\* having put call.filled bytes into content before.  read_exact takes the
\* bytes the stream holds, up to the length; it waits for the rest
\* ("Pending") or fails at the end of the stream.
ReadExact(call, buffer, content, stream, eof) ==
    LET len == call.content_length
        have == Len(stream)
        short == UsizeAbove(len, call.filled + have)
        need == UsizeValue(len) - call.filled
        body == SubSeq(content, 1, call.filled) \o SubSeq(stream, 1, need)
        ret(tag, m, err, pc, k, c) ==
            [tag |-> tag, msg |-> m, err |-> err, pc |-> pc,
             call |-> [call EXCEPT !.filled = @ + k, !.taken = @ + k],
             buffer |-> buffer, content |-> c, rest |-> DropFirst(stream, k)]
    IN IF short /\ ~eof
       THEN ret("Pending", NoMessage, "", "body", have,
                Filled(content, len, call.filled, stream))
       ELSE IF short
            THEN ret("Err", NoMessage, "io: unexpected end of file", "done", have,
                     Filled(content, len, call.filled, stream))
       ELSE IF ~IsUtf8(body)
            THEN ret("Err", NoMessage, "invalid utf8 from server", "done", need, body)
       ELSE IF from_slice(body) = NoMessage
            THEN ret("Err", NoMessage, "invalid message", "done", need, body)
       ELSE ret("Ok", from_slice(body), "", "read", need, << >>)

\* recv_server_message from the end of the header loop on (lines 97-141),
\* h being what the loop ended with
ReadBody(h, call, content, stream, eof, alloc) ==
    LET here == [content_length |-> h.content_length, line |-> h.line,
                 filled |-> 0,
                 taken |-> call.taken + Len(stream) - Len(h.rest)]
        ret(tag, err, pc) ==
            [tag |-> tag, msg |-> NoMessage, err |-> err, pc |-> pc, call |-> here,
             buffer |-> h.buffer, content |-> content, rest |-> h.rest]
    IN IF h.tag = "Blocked" THEN ret("Pending", "", "line")
       ELSE IF h.tag \in {"Closed", "Err"} THEN ret("Err", h.err, "done")
       ELSE IF h.content_length = NoLength
            THEN ret("Err", "missing content length", "done")
       ELSE IF ResizeOutcome(h.content_length, alloc) = "Panic"
            THEN ret("Panic", "capacity overflow", "done")
       ELSE IF ResizeOutcome(h.content_length, alloc) = "Abort"
            THEN ret("Abort", "memory allocation failed", "done")
       ELSE ReadExact(here, h.buffer, Resize(content, h.content_length), h.rest, eof)

\* recv_server_message (lines 90-142) run from where it is until it returns
\* or has to wait: pc is "read" for a new call (call is NoCall then), "line"
\* and "body" for a call that waited in read_line and in read_exact; buffer
\* and content are the two buffers as they are.  The result is "Ok", "Err",
\* "Panic", "Abort", or "Pending" with the call as it waits.
recv_server_message(pc, call, buffer, content, stream, eof, alloc) ==
    IF pc = "body" THEN ReadExact(call, buffer, content, stream, eof)
    ELSE Only({ReadBody(h, call, content, stream, eof, alloc) :
                  h \in {ReadHeaders(call.line, stream, eof, call.content_length)}})

\* BodyLength counting characters (chars().count()) instead of bytes
BodyLengthChars(request) == CharCount(request)

\* request.len() (line 189): the length of the String in bytes
BodyLength(request) == Len(request)

\* send_string_to_server (lines 179-198): the bytes written for a body
send_string_to_server(request) ==
    ContentLengthName \o << COLON, SP >> \o FormatUsize(BodyLength(request))
    \o << CR, LF, CR, LF >> \o request

----------------------------------------------------------------------------
\* The frame codec at work: recv_server_message (lines 90-142) is applied to
\* a stream a peer writes to, again after Ok and no more after Err, a panic
\* or an abort, as recv does; send_string_to_server (lines 179-198) is
\* applied to serialized requests, and the peer may write back what it was
\* sent.

\* the lines a peer adds to a header block: log output, a line ended by LF
\* alone, a colon without the space, an unrecognized header, a line that is
\* not text, and a line of whitespace
StrayKinds == {"log", "bare", "colon", "header", "binary", "feed"}
StrayLine(kind) ==
    CASE kind = "log"    -> Bytes(<< "l", "o", "g" >>) \o << CR, LF >>
      [] kind = "bare"   -> Bytes(<< "w" >>) \o << LF >>
      [] kind = "colon"  -> Bytes(<< "a", ":", "b" >>) \o << CR, LF >>
      [] kind = "header" -> Bytes(<< "X", ":", " ", "1" >>) \o << CR, LF >>
      [] kind = "binary" -> << 255, CR, LF >>
      [] kind = "feed"   -> << 12, CR, LF >>

RECURSIVE StrayLines(_)
StrayLines(kinds) ==
    IF kinds = << >> THEN << >>
    ELSE StrayLine(Head(kinds)) \o StrayLines(Tail(kinds))

KindSeqs(n) == UNION {[1..k -> StrayKinds] : k \in 0..n}

\* the Content-Length header a peer writes: the length of the body, none, a
\* value that is no number, one more than the length of the body, the length
\* of the body with a sign and followed by whitespace (a form feed, U+00A0),
\* usize::MAX + 1, usize::MAX, 10^18, and 10^10
LengthKinds == {"exact", "none", "bad", "long", "padded", "overflow", "capacity",
                "vast", "large"}
LengthLine(kind, body) ==
    CASE kind = "none"  -> << >>
      [] kind = "bad"   -> ContentLengthName \o << COLON, SP >> \o Bytes(<< "x" >>)
                           \o << CR, LF >>
      [] kind = "exact" -> ContentLengthName \o << COLON, SP >>
                           \o FormatUsize(Len(body)) \o << CR, LF >>
      [] kind = "long"  -> ContentLengthName \o << COLON, SP >>
                           \o FormatUsize(Len(body) + 1) \o << CR, LF >>
      [] kind = "padded" -> ContentLengthName \o << COLON, SP, PLUS >>
                            \o FormatUsize(Len(body)) \o << 12, 194, 160, CR, LF >>
      [] kind = "overflow" -> ContentLengthName \o << COLON, SP >>
                              \o SubSeq(UsizeMax, 1, Len(UsizeMax) - 1)
                              \o Bytes(<< "6" >>) \o << CR, LF >>
      [] kind = "capacity" -> ContentLengthName \o << COLON, SP >> \o UsizeMax
                              \o << CR, LF >>
      [] kind = "vast"  -> ContentLengthName \o << COLON, SP >> \o Bytes(<< "1" >>)
                           \o [i \in 1..18 |-> ZERO] \o << CR, LF >>
      [] kind = "large" -> ContentLengthName \o << COLON, SP >> \o Bytes(<< "1" >>)
                           \o [i \in 1..10 |-> ZERO] \o << CR, LF >>

\* the bodies a peer writes: two messages, a byte that is not text, and
\* text that is no message
PeerBodies ==
    {[text |-> to_string(m), msg |-> m] :
        m \in {OutputSuccess(1, "text"), NotificationCall("null")}}
    \cup {[text |-> << 255 >>, msg |-> NoMessage],
          [text |-> Bytes(<< "{", "}" >>), msg |-> NoMessage]}

\* the bodies written behind a Content-Length header of a kind: with a
\* header that ends the read, or a length no stream gets to, the read never
\* looks at the body, and one body stands for all
BodiesFor(length) ==
    IF length \in {"exact", "long", "padded"} THEN PeerBodies
    ELSE {b \in PeerBodies : b.msg = OutputSuccess(1, "text")}

Fed(origin, pre, length, post, msg, bytes) ==
    [origin |-> origin, pre |-> pre, length |-> length, post |-> post,
     msg |-> msg, size |-> Len(bytes)]

\* where the peer may stop in the middle of writing a frame: inside its
\* first line, before its last byte, or nowhere
Cuts(bytes) == {2, Len(bytes) - 1, Len(bytes)}

InitCodec ==
    /\ TransportIdle
    /\ c_stream = << >> /\ c_eof = FALSE /\ c_stdin = << >> /\ c_unsent = << >>
    /\ c_buffer = << >> /\ c_content = << >>
    /\ c_pc = "read" /\ c_call = NoCall /\ c_fed = << >> /\ c_results = << >>

\* the peer writes the first frame of the stream, or the first bytes of it
PeerWrite ==
    /\ ~c_eof /\ c_fed = << >> /\ Len(c_stdin) < MaxCodecFrames
    /\ \E pre \in KindSeqs(MaxStrayLines), post \in KindSeqs(MaxStrayLines),
          length \in LengthKinds :
          /\ Len(pre) + Len(post) <= MaxStrayLines
          /\ \E b \in BodiesFor(length) :
             \E bytes \in {StrayLines(pre) \o LengthLine(length, b.text)
                            \o StrayLines(post) \o << CR, LF >> \o b.text} :
                /\ \E k \in Cuts(bytes) :
                      /\ c_stream' = c_stream \o SubSeq(bytes, 1, k)
                      /\ c_unsent' = DropFirst(bytes, k)
                /\ c_fed' = Append(c_fed, Fed("peer", pre, length, post, b.msg, bytes))
    /\ UNCHANGED << c_eof, c_stdin, c_buffer, c_content, c_pc, c_call, c_results >>
    /\ UNCHANGED transportVars

\* the peer writes the rest of the frame
PeerWriteRest ==
    /\ ~c_eof /\ c_unsent # << >>
    /\ c_stream' = c_stream \o c_unsent
    /\ c_unsent' = << >>
    /\ UNCHANGED << c_eof, c_stdin, c_buffer, c_content, c_pc, c_call, c_fed,
                    c_results >>
    /\ UNCHANGED transportVars

\* send_string_to_server called with a serialized request (lines 179-198):
\* header and body are written to server_stdin
SendStringToServer ==
    /\ Len(c_fed) + Len(c_stdin) < MaxCodecFrames
    /\ \E m \in MethodCalls :
          c_stdin' = Append(c_stdin,
                            [msg |-> m, bytes |-> send_string_to_server(to_string(m))])
    /\ UNCHANGED << c_stream, c_eof, c_unsent, c_buffer, c_content, c_pc, c_call,
                    c_fed, c_results >>
    /\ UNCHANGED transportVars

\* the peer writes back the frame it was sent first
PeerEcho ==
    /\ ~c_eof /\ c_stdin # << >> /\ c_unsent = << >>
    /\ c_stream' = c_stream \o Head(c_stdin).bytes
    /\ c_stdin' = Tail(c_stdin)
    /\ c_fed' = Append(c_fed, Fed("send", << >>, "exact", << >>, Head(c_stdin).msg,
                                  Head(c_stdin).bytes))
    /\ UNCHANGED << c_eof, c_unsent, c_buffer, c_content, c_pc, c_call, c_results >>
    /\ UNCHANGED transportVars

\* the peer closes the stream
StreamClose ==
    /\ ~c_eof
    /\ c_eof' = TRUE
    /\ UNCHANGED << c_stream, c_stdin, c_unsent, c_buffer, c_content, c_pc, c_call,
                    c_fed, c_results >>
    /\ UNCHANGED transportVars

\* recv_server_message (lines 90-142) runs as far as the stream lets it: a
\* new call (line 261) or the call that waits goes on until it returns,
\* panics, aborts, or has to wait for more bytes, with the buffers and the
\* stream as it leaves them.  A call that waits and finds nothing new stays
\* where it is.
RecvServerMessage ==
    /\ c_pc \in {"read", "line", "body"}
    /\ \E alloc \in BOOLEAN :
       \E r \in {recv_server_message(c_pc, c_call, c_buffer, c_content, c_stream,
                                     c_eof, alloc)} :
          /\ r.tag = "Pending" => (r.pc # c_pc \/ c_stream # << >>)
          /\ c_stream' = r.rest
          /\ c_buffer' = r.buffer
          /\ c_content' = r.content
          /\ c_pc' = r.pc
          /\ c_call' = IF r.tag = "Pending" THEN r.call ELSE NoCall
          /\ c_results' = IF r.tag = "Pending" THEN c_results
                          ELSE Append(c_results,
                                  [tag |-> r.tag, msg |-> r.msg, err |-> r.err,
                                   consumed |-> r.call.taken])
    /\ UNCHANGED << c_eof, c_stdin, c_unsent, c_fed >>
    /\ UNCHANGED transportVars

NextCodec ==
    PeerWrite \/ PeerWriteRest \/ SendStringToServer \/ PeerEcho \/ StreamClose
    \/ RecvServerMessage

SpecCodec == InitCodec /\ [][NextCodec]_vars

----------------------------------------------------------------------------
\* The whole system

Caller == CallerSend \/ CallerDropTx \/ CallerNotify \/ CallerDropRx
          \/ CallerDropUpstream
Server == ServerEmit \/ ServerCloseStdout \/ ServerErrLine \/ ServerCloseStderr
          \/ ServerCloseStdin \/ ServerStallStdin
Reader == ReaderOutput \/ ReaderResolveSend \/ ReaderCall \/ ReaderDecodeError
          \/ ReaderPanic \/ ReaderAbort
          \/ ReaderStreamClosed \/ ReaderDrainOne \/ ReaderDrainDone
          \/ ReaderExit
ErrReader == ErrLine \/ ErrExit
Writer == WriterPark \/ WriterNotified \/ WriterFlushNext \/ WriterFlushDone
          \/ WriterRecv \/ WriterChannelClosed \/ WriterRegister \/ WriterWrite
          \/ WriterWriteFailed

Next == Caller \/ Server \/ Reader \/ ErrReader \/ Writer

Spec == Init /\ [][Next]_vars

\* The handshake gate: the caller enqueues every kind of payload, fires the
\* trigger and drops its senders; the server sends nothing, may close its
\* stdout and its stdin and may stop reading its stdin.
NextGate ==
    \/ CallerSend \/ CallerNotify \/ CallerDropTx
    \/ ServerCloseStdout \/ ServerCloseStdin \/ ServerStallStdin
    \/ ReaderStreamClosed \/ ReaderDrainOne \/ ReaderDrainDone \/ ReaderExit
    \/ Writer

SpecGate == Init /\ [][NextGate]_vars

\* Correlation: the caller enqueues requests and fires the trigger; the
\* server writes any frames, may close its stdout and its stdin and may stop
\* reading its stdin.
NextCorr ==
    \/ CallerSendRequest \/ CallerNotifyOnce
    \/ ServerEmitNoFailure \/ ServerCloseStdout
    \/ ServerCloseStdin \/ ServerStallStdin
    \/ Reader
    \/ WriterPark \/ WriterNotified \/ WriterFlushNext \/ WriterFlushDone
    \/ WriterRecv \/ WriterRegister \/ WriterWrite \/ WriterWriteFailed

SpecCorr == Init /\ [][NextCorr]_vars

\* The same with the tokio scheduler running every task that can run
WriterCorr == WriterPark \/ WriterNotified \/ WriterFlushNext \/ WriterFlushDone
              \/ WriterRecv \/ WriterRegister \/ WriterWrite
              \/ WriterWriteFailed
FairCorr == SpecCorr /\ WF_vars(Reader) /\ WF_vars(WriterCorr)

\* After the handshake, with callers that give up: the caller enqueues
\* requests and drops receivers of completion channels and of the upstream
\* channel; the server writes any frames, may close its stdout and its stdin
\* and may stop reading its stdin.
NextDrop ==
    \/ CallerSendHover \/ CallerDropRx \/ CallerDropUpstream
    \/ ServerEmitNoFailure \/ ServerCloseStdout
    \/ ServerCloseStdin \/ ServerStallStdin
    \/ Reader
    \/ WriterPark \/ WriterRecv \/ WriterRegister \/ WriterWrite
    \/ WriterWriteFailed

SpecDrop == InitReady /\ [][NextDrop]_vars

\* The life of the three tasks after the handshake: the caller enqueues
\* requests and drops its senders; the server writes any frames and stderr
\* lines, closes its streams and may stop reading its stdin.  The tokio
\* scheduler runs every task that can run; nothing makes the caller or the
\* server act, and a write to a full pipe waits for ever.
NextLife ==
    \/ CallerSendHover \/ CallerDropTx
    \/ ServerEmitNoFailure \/ ServerCloseStdout \/ ServerErrLine \/ ServerCloseStderr
    \/ ServerCloseStdin \/ ServerStallStdin
    \/ Reader
    \/ ErrReader
    \/ WriterPark \/ WriterRecv \/ WriterChannelClosed \/ WriterRegister
    \/ WriterWrite \/ WriterWriteFailed

WriterLife == WriterPark \/ WriterRecv \/ WriterChannelClosed \/ WriterRegister
              \/ WriterWrite \/ WriterWriteFailed

FairLife ==
    /\ InitReady /\ [][NextLife]_vars
    /\ WF_vars(Reader) /\ WF_vars(WriterLife) /\ WF_vars(ErrReader)

\* Correlation with a server that also answers with errors
NextPeer ==
    \/ CallerSendRequest \/ CallerNotifyOnce
    \/ ServerEmit \/ ServerCloseStdout
    \/ ServerCloseStdin \/ ServerStallStdin
    \/ Reader
    \/ WriterCorr

SpecPeer == Init /\ [][NextPeer]_vars

\* A send task that ends before the handshake is over: the caller enqueues
\* requests, fires the trigger at most once and drops its senders; the
\* server answers, may close its stdout and its stdin and may stop reading
\* its stdin.
AnyRequests(s) == {Request(s, m) : m \in {"initialize", "shutdown", "textDocument/hover"}}
CallerSendAnyRequest == CallerSendOf(AnyRequests(next_serial), MaxPayloads)
ServerEmitSuccess == ServerEmitOf(Successes)

NextAbandon ==
    \/ CallerSendAnyRequest \/ CallerNotifyOnce \/ CallerDropTx
    \/ ServerEmitSuccess \/ ServerCloseStdout
    \/ ServerCloseStdin \/ ServerStallStdin
    \/ ReaderOutput \/ ReaderResolveSend \/ ReaderStreamClosed
    \/ ReaderDrainOne \/ ReaderDrainDone \/ ReaderExit
    \/ Writer

SpecAbandon == Init /\ [][NextAbandon]_vars

----------------------------------------------------------------------------
\* Properties of the handshake gate (SpecGate)

Range(q) == {q[i] : i \in 1..Len(q)}

\* the requests dequeued while Pending that are neither the handshake's
\* initialize request nor a shutdown request (which ends the send task)
HeldBack ==
    {p \in deq_pending : p.kind = "Request"
                         /\ p.method \notin {"initialize", "shutdown"}}

\* the send task has processed the initialization signal: the notified
\* branch ran to its end
SignalProcessed == ready_count > 0 /\ ~w_draining

\* C3 as stated -- Handshake ordering: once the send task has processed the
\* initialization signal, every request it dequeued while Pending (other than
\* the handshake's initialize request) is on the wire; these requests are on
\* the wire in the order they were enqueued (the order of their serials); and
\* each of them is written before any payload dequeued after the
\* Pending->Ready transition.
C3_HandshakeOrdering ==
    /\ SignalProcessed => HeldBack \subseteq Range(wire)
    /\ \A i, j \in 1..Len(wire) :
          /\ (wire[i] \in HeldBack /\ wire[j] \in HeldBack /\ i < j)
                => wire[i].serial < wire[j].serial
          /\ (wire[i] \in HeldBack /\ wire[j] \notin deq_pending) => i < j

\* C3 as amended -- once the send task has processed the initialization
\* signal, every request it dequeued while Pending (other than the
\* handshake's initialize request) was handed to the frame write and is on
\* the wire unless that write failed, no request being both; the requests on
\* the wire are in the order they were enqueued; and each of them is written
\* before any payload dequeued after the Pending->Ready transition.
C3_FlushedInOrder ==
    /\ SignalProcessed => HeldBack \subseteq (Range(wire) \cup write_failed)
    /\ Range(wire) \cap write_failed = {}
    /\ \A i, j \in 1..Len(wire) :
          /\ (wire[i] \in HeldBack /\ wire[j] \in HeldBack /\ i < j)
                => wire[i].serial < wire[j].serial
          /\ (wire[i] \in HeldBack /\ wire[j] \notin deq_pending) => i < j

\* of two requests held back while Pending the first is on the wire, and the
\* write of the second failed
C3_Witness ==
    /\ SignalProcessed
    /\ \E p, q \in HeldBack :
          /\ p.serial < q.serial
          /\ p \in Range(wire)
          /\ q \in write_failed

\* the notifications dequeued while Pending other than `initialized`
IgnoredNotifications ==
    {p \in deq_pending : p.kind = "Notification" /\ p.method # "initialized"}

\* C4 -- A notification dequeued while Pending, other than the handshake's
\* `initialized`, is never written to the wire and never placed in
\* pending_messages (nor handed to send_payload_to_server).
C4_NotificationsDropped ==
    \A p \in IgnoredNotifications :
        /\ p \notin Range(wire)
        /\ p \notin Range(pending_messages)
        /\ p # w_msg

\* a notification was dequeued while Pending, then the deferred queue was
\* flushed and wrote a request enqueued after it
C4_Witness ==
    /\ SignalProcessed
    /\ \E p \in IgnoredNotifications :
          \E i \in 1..Len(wire) : wire[i] \in HeldBack /\ wire[i].serial > p.serial

\* the shutdown requests dequeued while Pending
EarlyShutdowns ==
    {p \in deq_pending : p.kind = "Request" /\ p.method = "shutdown"}

\* C5 -- Shutdown-before-ready: a shutdown request dequeued while Pending is
\* never written to the wire and never registered in pending_requests, the
\* send task has exited as soon as it is dequeued, and once the send task
\* has exited nothing more is written to the wire.
C5_ShutdownBeforeReady ==
    /\ [](\A p \in EarlyShutdowns :
             /\ p \notin Range(wire)
             /\ p.id \notin registered
             /\ pending_requests[p.id] = 0
             /\ w_pc = "done")
    /\ [][w_pc = "done" => (w_pc' = "done" /\ wire' = wire)]_vars

\* a shutdown request ended the send task while requests were held back,
\* and a payload the caller sent after that was refused
C5_Witness ==
    /\ EarlyShutdowns # {}
    /\ pending_messages # << >>
    /\ tx_refused # {}

----------------------------------------------------------------------------
\* Properties of the correlation of requests and responses (SpecCorr, FairCorr)

\* how many times value v was accepted by chan c
Count(c, v) == Cardinality({k \in 1..Len(got[c]) : got[c][k] = v})

\* a response with the id of request c is in the inbound stream, no frame
\* that ends the recv task is ahead of it, the recv task is in its loop and
\* the request is registered
ResponseArrives(c) ==
    /\ pending_requests[c] # 0
    /\ r_pc \in {"read", "resolve"}
    /\ \E k \in 1..Len(stdout) :
          /\ stdout[k] = [kind |-> "Success", id |-> c]
          /\ \A j \in 1..(k - 1) :
                stdout[j].kind \notin {"Malformed", "Oversized", "Unallocatable"}

\* C1 -- Correlation correctness: a completion channel never receives more
\* than one value, a result it receives is the result of a response that
\* carried the id of its own request, and when a response with the id of a
\* registered request arrives at the recv task the request's completion
\* channel eventually holds exactly that result -- whatever the order the
\* responses arrive in.
C1_Correlation ==
    /\ [](\A c \in Chans :
             /\ Len(got[c]) <= 1
             /\ \A k \in 1..Len(got[c]) :
                   got[c][k].tag \in {"Ok", "Err"} => got[c][k].val = c)
    /\ \A c \in Chans : ResponseArrives(c) ~> (got[c] = << Ok(c) >>)

\* two requests written while Ready; the response to the second arrived
\* first and was delivered, the response to the first is arriving
C1_Witness ==
    /\ Len(wire) = 2 /\ deq_pending = {}
    /\ got[2] = << Ok(2) >>
    /\ got[1] = << >>
    /\ ResponseArrives(1)

\* C2 -- Every entry inserted into pending_requests is removed exactly once:
\* never more than once (so never by both a resolve and the drain), and it is
\* eventually removed, so none is left once the recv task, the only task that
\* removes entries, has exited.
C2_RemovedExactlyOnce ==
    \A i \in Ids :
        /\ Len(removed_by[i]) <= 1
        /\ (i \in registered /\ r_pc = "done") => Len(removed_by[i]) = 1

\* C6 -- Drain-on-closure: when the recv task has observed stream closure or
\* a decode error with K requests registered, each of the K completion
\* channels has received StreamClosed exactly once, no channel ever receives
\* it twice, only those K receive it, and pending_requests is empty when the
\* drain finishes.
C6_DrainOnClosure ==
    /\ [](\A c \in Chans :
             /\ Count(c, StreamClosed) <= 1
             /\ Count(c, StreamClosed) = 1 => c \in drain_set
             /\ (r_pc = "done" /\ c \in drain_set) => Count(c, StreamClosed) = 1)
    /\ [][(r_pc = "drain" /\ r_pc' # "drain") => Keys(pending_requests') = {}]_vars

\* the drain ran over two registered requests
C6_Witness ==
    /\ r_pc = "done"
    /\ Cardinality(drain_set) = 2
    /\ \A c \in drain_set : got[c] = << StreamClosed >>

\* the recv task is about to read a response whose id has no entry
StaleAtHead ==
    /\ r_pc = "read" /\ stdout # << >>
    /\ Head(stdout).kind \in {"Success", "Failure"}
    /\ pending_requests[Head(stdout).id] = 0

\* C7 -- Stale response safety: when the recv task reads a response whose id
\* has no entry in pending_requests, the table is unchanged, no completion
\* channel receives a value, nothing is forwarded upstream, the lock is
\* released and the recv task is back at its read.
C7_StaleResponse ==
    [][(StaleAtHead /\ stdout' = Tail(stdout))
          => /\ pending_requests' = pending_requests
             /\ got' = got
             /\ upstream' = upstream
             /\ lock' = "free"
             /\ r_pc' = "read"]_vars

\* a stale response was discarded while a request was registered, and that
\* request then got its own result
C7_Witness ==
    /\ discards >= 1
    /\ \E c \in Chans : c \in registered /\ got[c] = << Ok(c) >>

----------------------------------------------------------------------------
\* Properties of the recv task with callers that give up (SpecDrop)

\* what the recv task forwarded upstream, in order
Forwarded == SelectSeq(upstream, LAMBDA u : u.from = "recv")
IsExit(u) == u.method = "exit"

\* C8 -- Termination sequence: every exit of the recv task is the end of the
\* termination sequence: the requests registered at the stream's end were
\* drained, each removed by the drain, and then one `exit` notification was
\* forwarded, which is the last thing the recv task forwards (seen by an
\* upstream receiver that is still there); and no `exit` notification is
\* forwarded before the recv task exits.
C8_TerminationSequence ==
    /\ r_pc = "done" => r_exit = "sequence"
    /\ r_exit = "sequence" => \A i \in drain_set : removed_by[i] = << "drain" >>
    /\ (r_exit = "sequence" /\ upstream_open)
          => /\ Len(SelectSeq(Forwarded, IsExit)) = 1
             /\ IsExit(Forwarded[Len(Forwarded)])
    /\ r_pc # "done" => Len(SelectSeq(Forwarded, IsExit)) = 0

\* the recv task is about to forward a peer Call on an upstream channel
\* whose receiver was dropped
ForwardWillFail ==
    /\ r_pc = "read" /\ stdout # << >>
    /\ Head(stdout).kind = "Call"
    /\ ~upstream_open

\* the recv task is about to deliver a result on a completion channel whose
\* receiver was dropped
DeliveryWillFail == r_pc = "resolve" /\ r_tx \in rx_dropped

\* C10 -- A failed send is never fatal: when the recv task fails to deliver a
\* result on a completion channel, or fails to forward a peer Call upstream,
\* it goes on with its loop (it is back at its read).
C10_SendFailureNotFatal ==
    [][/\ (DeliveryWillFail /\ r_pc' # "resolve") => r_pc' = "read"
       /\ (ForwardWillFail /\ stdout' = Tail(stdout)) => r_pc' = "read"]_vars

----------------------------------------------------------------------------
\* Teardown (FairLife)

AllExited == r_pc = "done" /\ e_pc = "done" /\ w_pc = "done"

\* an undecodable frame is on the inbound stream
FramingError == \E k \in 1..Len(stdout) : stdout[k].kind = "Malformed"

\* C9 -- Teardown: all three tasks eventually exit once the inbound
\* stream is closed, once a framing error is on the inbound stream, and once
\* the outbound channel is dropped by the caller.
C9_TeardownOnAnyCause ==
    /\ stdout_eof ~> AllExited
    /\ FramingError ~> AllExited
    /\ ~tx_open ~> AllExited

----------------------------------------------------------------------------
\* Peer errors (SpecPeer)

\* the recv task is about to read a Failure response whose id is registered
PeerErrorAtHead ==
    /\ r_pc = "read" /\ lock = "free" /\ stdout # << >>
    /\ Head(stdout).kind = "Failure"
    /\ pending_requests[Head(stdout).id] # 0

\* C11 -- Peer errors do not affect the transport: when the recv task reads
\* a Failure response whose id is registered, only that entry is removed,
\* the peer's error is what is sent on that entry's completion channel and
\* the channel accepts it as its value; neither step ends the recv task or
\* the send task, changes is_pending or touches another entry.
C11_PeerErrorDelivered ==
    /\ [][(PeerErrorAtHead /\ stdout' = Tail(stdout))
            => /\ pending_requests' =
                     [pending_requests EXCEPT ![Head(stdout).id] = 0]
               /\ r_tx' = pending_requests[Head(stdout).id]
               /\ r_result' = [tag |-> "Err", val |-> Head(stdout).id]
               /\ r_pc' = "resolve" /\ r_exit' = r_exit
               /\ w_pc' = w_pc /\ is_pending' = is_pending]_vars
    /\ [][(r_pc = "resolve" /\ r_result.tag = "Err" /\ r_pc' # "resolve")
            => /\ got' = [got EXCEPT ![r_tx] = Append(@, r_result)]
               /\ pending_requests' = pending_requests
               /\ r_pc' = "read" /\ r_exit' = r_exit
               /\ w_pc' = w_pc /\ is_pending' = is_pending]_vars
    /\ [](\A c \in Chans : \A k \in 1..Len(got[c]) :
             got[c][k].tag = "Err" => (got[c][k].val = c /\ Len(got[c]) = 1))

\* one request got the peer's error, another one then got its result, and
\* both tasks are in their loops
C11_Witness ==
    /\ \E c, d \in Chans :
          /\ got[c] = << [tag |-> "Err", val |-> c] >>
          /\ got[d] = << [tag |-> "Ok", val |-> d] >>
          /\ c < d
    /\ r_pc = "read" /\ w_pc = "select" /\ ~is_pending

----------------------------------------------------------------------------
\* The initialization signal (SpecGate)

\* the `initialized` notifications the send task forwarded upstream
InitializedUpcalls == SelectSeq(upstream, LAMBDA u : u.from = "send")

\* C12 -- The initialization signal is idempotent to observe: however many
\* times the trigger is fired the gate never returns to Pending once the
\* signal was processed, and the synthesized `initialized` notification is
\* delivered upstream at most once.
C12_SignalIdempotent ==
    /\ ready_count > 0 => ~is_pending
    /\ Len(InitializedUpcalls) <= 1

----------------------------------------------------------------------------
\* The lock of pending_requests (SpecCorr)

\* the recv task is at a tx.send(..).await on a completion channel: the one
\* of process_request_response (line 235) or the one of the drain (line 291)
ReaderWaitsOnSend ==
    \/ r_pc = "resolve"
    \/ r_pc = "drain" /\ Keys(pending_requests) # {}

\* C15 -- Lock discipline: no task holds the lock of pending_requests while
\* it waits on anything else: not the recv task while it reads its stream or
\* delivers a value on a completion channel, not the send task while it
\* waits in its select or writes to its stream.
C15_LockDiscipline ==
    /\ (r_pc = "read" \/ ReaderWaitsOnSend) => lock # "reader"
    /\ w_pc \in {"select", "flush", "write"} => lock # "writer"

\* the request with this id is on the wire or is being written
WrittenOrBeingWritten(i) ==
    \/ \E k \in 1..Len(wire) : wire[k].kind = "Request" /\ wire[k].id = i
    \/ w_pc = "write" /\ w_msg.kind = "Request" /\ w_msg.id = i

\* C16 -- Register-before-write: the id of every request that is written or
\* being written was inserted into pending_requests before; so when the recv
\* task reads a response to such a request whose entry was not removed yet,
\* the response is not discarded: it finds the request's own entry.
C16_RegisterBeforeWrite ==
    /\ [](\A i \in Ids : WrittenOrBeingWritten(i) => i \in registered)
    /\ [](\A i \in Ids : (WrittenOrBeingWritten(i) /\ removed_by[i] = << >>)
                             => pending_requests[i] = i)
    /\ [][(/\ r_pc = "read" /\ stdout # << >> /\ stdout' = Tail(stdout)
            /\ Head(stdout).kind \in {"Success", "Failure"}
            /\ WrittenOrBeingWritten(Head(stdout).id)
            /\ removed_by[Head(stdout).id] = << >>)
            => /\ discards' = discards
               /\ r_tx' = Head(stdout).id]_vars

\* the recv task resolves a request while the send task is still writing it
C16_Witness ==
    /\ w_pc = "write" /\ w_msg.kind = "Request"
    /\ r_pc = "resolve" /\ r_tx = w_msg.serial
    /\ discards = 0

----------------------------------------------------------------------------
\* More properties of the handshake gate (SpecGate)

\* the handshake's own initiation messages
IsInitiation(p) ==
    \/ p.kind = "Request" /\ p.method = "initialize"
    \/ p.kind = "Notification" /\ p.method = "initialized"

\* the send task dequeues the head of client_rx while Pending
DequeuesWhilePending ==
    /\ is_pending /\ w_pc = "select"
    /\ client_rx # << >> /\ client_rx' = Tail(client_rx)

\* C17 -- While the gate is Pending only initiation messages are written,
\* registered or handed to send_payload_to_server, and none is in
\* pending_messages; an initiation message dequeued while Pending goes
\* straight to send_payload_to_server; any other request (but shutdown) or
\* response dequeued while Pending is appended to pending_messages, and
\* neither written nor registered.
C17_OnlyHandshakeWhilePending ==
    /\ [](is_pending
            => /\ \A k \in 1..Len(wire) : IsInitiation(wire[k])
               /\ \A k \in 1..Len(pending_messages) :
                      ~IsInitiation(pending_messages[k])
               /\ \A i \in registered :
                      \E p \in deq_pending : p.id = i /\ IsInitiation(p)
               /\ (w_msg # NoPayload => IsInitiation(w_msg)))
    /\ [][(DequeuesWhilePending /\ IsInitiation(Head(client_rx)))
            => /\ w_msg' = Head(client_rx)
               /\ w_pc' \in {"register", "write"}
               /\ pending_messages' = pending_messages]_vars
    /\ [][(/\ DequeuesWhilePending /\ ~IsInitiation(Head(client_rx))
            /\ \/ Head(client_rx).kind = "Response"
               \/ Head(client_rx).kind = "Request"
                  /\ Head(client_rx).method # "shutdown")
            => /\ pending_messages' = Append(pending_messages, Head(client_rx))
               /\ w_pc' = "select" /\ w_msg' = w_msg
               /\ wire' = wire /\ registered' = registered]_vars

\* still Pending: an initiation message is on the wire while a request and a
\* response enqueued before it are held back
C17_Witness ==
    /\ is_pending
    /\ Len(wire) = 1 /\ IsInitiation(wire[1])
    /\ Len(pending_messages) = 2
    /\ pending_messages[1].kind = "Request"
    /\ pending_messages[2].kind = "Response"
    /\ wire[1].serial > pending_messages[2].serial

\* C18 -- Wire ordering: no payload is written twice, and two payloads are
\* on the wire in the reverse of their enqueue order only if the first one
\* written is an initiation message dequeued while Pending and the other
\* one was dequeued while Pending too (it was deferred); so two payloads
\* that are not initiation messages are never reversed.
C18_WireOrdering ==
    \A i, j \in 1..Len(wire) :
        i < j => /\ wire[i] # wire[j]
                 /\ wire[i].serial > wire[j].serial
                       => /\ IsInitiation(wire[i])
                          /\ wire[i] \in deq_pending
                          /\ wire[j] \in deq_pending

\* an initiation message written while Pending precedes a deferred request
\* enqueued before it, which precedes a payload enqueued after both
C18_Witness ==
    /\ Len(wire) = 3
    /\ wire[1].serial = 2 /\ wire[2].serial = 1 /\ wire[3].serial = 3
    /\ wire[3] \notin deq_pending

----------------------------------------------------------------------------
\* A send task that ends before the handshake is over (SpecAbandon)

\* C20 -- If the send task exits while the gate is still Pending, the
\* requests in pending_messages are never written and never registered and
\* their completion channels never receive a value: as long as the signal
\* was not processed no held-back request is written, registered or given a
\* value (not even by the drain of the recv task), and once the send task
\* has exited the signal is never processed and the task stays exited.
C20_DeferredAbandoned ==
    /\ [](ready_count = 0
            => \A p \in HeldBack :
                  /\ p \notin Range(wire)
                  /\ p.id \notin registered
                  /\ pending_requests[p.id] = 0
                  /\ got[p.serial] = << >>)
    /\ [][w_pc = "done"
            => /\ w_pc' = "done" /\ ready_count' = ready_count
               /\ is_pending' = is_pending
               /\ pending_messages' = pending_messages]_vars

\* the send task exited while Pending with a request held back; the server
\* answered that request and closed its stdout, and the recv task drained
\* the handshake's request and exited
C20_Witness ==
    /\ w_pc = "done" /\ is_pending
    /\ pending_messages # << >>
    /\ r_pc = "done" /\ r_exit = "sequence"
    /\ discards >= 1
    /\ \E c \in Chans : got[c] = << StreamClosed >>

----------------------------------------------------------------------------
\* Properties of the frame codec (SpecCodec)

\* the lines of the header block of a frame are stray lines (lines without
\* a ": ") and unrecognized headers around a Content-Length header that
\* gives the length of the body, and the body is a message
TolerantFrame(d) ==
    /\ d.origin = "peer" /\ d.length = "exact" /\ d.msg.shape # "None"
    /\ \A k \in 1..Len(d.pre) : d.pre[k] \in StrayKinds
    /\ \A k \in 1..Len(d.post) : d.post[k] \in StrayKinds

\* C13 -- Non-conformant input tolerance: the read of a frame whose header
\* block holds stray lines and unrecognized headers before and after a valid
\* Content-Length header returns the frame's message and consumes exactly
\* the bytes of the frame, and the read that follows returns the message of
\* the frame that follows, consuming exactly its bytes.
C13_StrayLinesTolerated ==
    (c_fed # << >> /\ TolerantFrame(c_fed[1]) /\ c_unsent = << >>)
       => \A k \in 1..Len(c_results) :
             k <= Len(c_fed)
                => /\ c_results[k].tag = "Ok"
                   /\ c_results[k].msg = c_fed[k].msg
                   /\ c_results[k].consumed = c_fed[k].size

\* the first k frames of the stream are frames send_string_to_server wrote,
\* as the peer received them
WrittenFrames(k) == k <= Len(c_fed) /\ \A j \in 1..k : c_fed[j].origin = "send"

\* C14 -- Framing round-trip: the bytes send_string_to_server writes for a
\* request are decoded by recv_server_message into one message with the
\* request's id, method and params, consuming exactly those bytes.
C14_FramingRoundTrip ==
    \A k \in 1..Len(c_results) :
        WrittenFrames(k)
           => /\ c_results[k].tag = "Ok"
              /\ c_results[k].msg.shape = "MethodCall"
              /\ c_results[k].msg.id = c_fed[k].msg.id
              /\ c_results[k].msg.method = c_fed[k].msg.method
              /\ c_results[k].msg.value = c_fed[k].msg.value
              /\ c_results[k].consumed = c_fed[k].size

\* two requests were written and read back, the second one with params of
\* more bytes than characters
C14_Witness ==
    /\ WrittenFrames(2) /\ Len(c_results) = 2
    /\ c_fed[1].msg.id # c_fed[2].msg.id
    /\ c_results[2].tag = "Ok" /\ c_results[2].msg.value = "text"
    /\ c_stream = << >>

\* C19 -- recv_server_message leaves the body scratch buffer empty after
\* every attempt, whether it returned a message, StreamClosed or a decode
\* error.
C19_BuffersCleared == c_pc \in {"read", "done"} => c_content = << >>

====
